---------------------------- MODULE Spec2Model ----------------------------
(***************************************************************************)
(* A model of the Fly-Pie menu core (src/daemon/Menu.js): the angle        *)
(* solver _updateItemAngles, the id assignment _updateItemIDs, the         *)
(* show / hide lifecycle and the handlers of the selection events.         *)
(*                                                                         *)
(* Angles are JavaScript numbers in degrees.  Here an angle is an integer  *)
(* count of 1/Den degrees, with Den a common multiple of every divisor the *)
(* solver can use, so that the solver's divisions are exact.               *)
(***************************************************************************)
EXTENDS Integers, Sequences, FiniteSets, TLC

\* Largest number of sibling items in one list.
MaxItems == 3

RECURSIVE GCD(_, _)
GCD(a, b) == IF b = 0 THEN a ELSE GCD(b, a % b)

RECURSIVE LCMUpTo(_)
LCMUpTo(n) == IF n <= 1 THEN 1 ELSE (LCMUpTo(n - 1) * n) \div GCD(LCMUpTo(n - 1), n)

\* Units per degree: a wedge is divided by at most MaxItems + 1.
Den == LCMUpTo(MaxItems + 1)

\* d degrees, and h half degrees, in units.
Deg(d) == d * Den
HalfDeg(h) == h * (Den \div 2)

Abs(x) == IF x < 0 THEN -x ELSE x

-----------------------------------------------------------------------------
(***************************************************************************)
(* Items of the structure given to show().  A property an item does not    *)
(* carry is modelled by hasAngle = FALSE (for 'angle') and by the empty    *)
(* string (for 'id', 'name' and 'icon': the code tests them by             *)
(* truthiness or against undefined).                                       *)
(***************************************************************************)
Item(id, hasAngle, angle, children) ==
    [name |-> "", icon |-> "", id |-> id, hasAngle |-> hasAngle,
     angle |-> angle, children |-> children]

\* An item with no properties but its children.
Plain(children) == Item("", FALSE, 0, children)

\* An item with a supplied angle of d degrees.
Fixed(d, children) == Item("", TRUE, Deg(d), children)

-----------------------------------------------------------------------------
(***************************************************************************)
(* Menu._updateItemAngles                                                  *)
(***************************************************************************)

\* The indices 0 .. n-1 in order.
Indices(n) == [i \in 1..n |-> i - 1]

\* Mutation of FixedAngles: every supplied angle counts as fixed, negative or not.
FixedAnglesUnfiltered(items) ==
    LET fixedIdx == SelectSeq(Indices(Len(items)), LAMBDA i : items[i + 1].hasAngle)
    IN  [k \in 1..Len(fixedIdx) |->
            [angle |-> items[fixedIdx[k] + 1].angle, index |-> fixedIdx[k]]]

\* The fixed angles of a list with their indices, in list order.
FixedAngles(items) ==
    LET fixedIdx == SelectSeq(Indices(Len(items)),
                       LAMBDA i : items[i + 1].hasAngle /\ items[i + 1].angle >= 0)
    IN  [k \in 1..Len(fixedIdx) |->
            [angle |-> items[fixedIdx[k] + 1].angle, index |-> fixedIdx[k]]]

\* Mutation of FixedAnglesValid: equal neighbours pass (< for <=).
FixedAnglesValidNonStrict(fixedAngles) ==
    \A i \in 1..Len(fixedAngles) :
        /\ ~(i > 1 /\ fixedAngles[i].angle < fixedAngles[i - 1].angle)
        /\ ~(fixedAngles[i].angle < 0 \/ fixedAngles[i].angle >= Deg(360))

\* The fixed angles increase monotonically and lie between 0 and 360 degrees.
FixedAnglesValid(fixedAngles) ==
    \A i \in 1..Len(fixedAngles) :
        /\ ~(i > 1 /\ fixedAngles[i].angle <= fixedAngles[i - 1].angle)
        /\ ~(fixedAngles[i].angle < 0 \/ fixedAngles[i].angle >= Deg(360))

\* The parent link collides with a fixed item (a difference below 1 degree).
ParentCollides(fixedAngles, hasParent, parentAngle) ==
    /\ hasParent
    /\ \E i \in 1..Len(fixedAngles) :
           Abs(fixedAngles[i].angle - parentAngle) < Deg(1)

\* Mutation of FirstAngle: the position of the parent is not looked at.
FirstAngleRight(hasParent, parentAngle) == Deg(90)

\* The angle given to the first item when no item has a fixed angle.
FirstAngle(hasParent, parentAngle) ==
    IF hasParent /\ parentAngle < Deg(180) THEN Deg(270) ELSE Deg(90)

\* Mutation of WedgeEndAngle: a wedge that loops around is not extended.
WedgeEndAngleNoLoop(wedgeBeginAngle, endAngle) == endAngle

\* The end angle of a wedge, one turn on when it loops around.
WedgeEndAngle(wedgeBeginAngle, endAngle) ==
    IF endAngle <= wedgeBeginAngle THEN endAngle + Deg(360) ELSE endAngle

\* The number of items between the begin and end indices of a wedge.
WedgeItemCount(wedgeBeginIndex, wedgeEndIndex, n) ==
    (wedgeEndIndex - wedgeBeginIndex - 1 + n) % n

\* The parent angle as the wedge sees it: one turn on if it lies before the
\* wedge's begin.  The code assigns this to parentAngle, for the later wedges too.
ShiftedParentAngle(parentAngle, wedgeBeginAngle) ==
    IF parentAngle < wedgeBeginAngle THEN parentAngle + Deg(360) ELSE parentAngle

ParentInWedge(parentAngle, wedgeBeginAngle, wedgeEndAngle) ==
    parentAngle > wedgeBeginAngle /\ parentAngle < wedgeEndAngle

\* The angular difference between consecutive items of a wedge.
WedgeItemGap(wedgeBeginAngle, wedgeEndAngle, wedgeItemCount) ==
    (wedgeEndAngle - wedgeBeginAngle) \div (wedgeItemCount + 1)

\* Mutation of ParentGapHere: the gap is inserted before the first item beyond
\* the parent link, half a slot too late.
ParentGapHereNoHalf(itemAngle, wedgeItemGap, parentAngle) ==
    2 * itemAngle - 2 * parentAngle > 0

\* The test that inserts the gap for the parent link before an item:
\* itemAngle + wedgeItemGap / 2 - parentAngle > 0.
ParentGapHere(itemAngle, wedgeItemGap, parentAngle) ==
    2 * itemAngle + wedgeItemGap - 2 * parentAngle > 0

\* The while loop that assigns an angle to each item of one wedge.
RECURSIVE AssignWedge(_, _, _, _, _, _, _, _)
AssignWedge(items, index, count, parentGapRequired, wedgeEndIndex, wedgeBeginAngle, wedgeItemGap, parentAngle) ==
    IF index = wedgeEndIndex THEN items
    ELSE
        LET skip  == parentGapRequired /\
                     ParentGapHere(wedgeBeginAngle + wedgeItemGap * count,
                                   wedgeItemGap, parentAngle)
            cnt   == IF skip THEN count + 1 ELSE count
            itemAngle == wedgeBeginAngle + wedgeItemGap * cnt
            set   == [items EXCEPT ![index + 1].hasAngle = TRUE,
                                   ![index + 1].angle = itemAngle % Deg(360)]
        IN  AssignWedge(set, (index + 1) % Len(items), cnt + 1,
                        parentGapRequired /\ ~skip, wedgeEndIndex,
                        wedgeBeginAngle, wedgeItemGap, parentAngle)

\* The for loop over the wedges between consecutive fixed angles.
RECURSIVE WedgeLoop(_, _, _, _, _)
WedgeLoop(i, fixedAngles, items, hasParent, parentAngle) ==
    IF i >= Len(fixedAngles) THEN items
    ELSE
        LET next == fixedAngles[((i + 1) % Len(fixedAngles)) + 1]
            wedgeBeginIndex == fixedAngles[i + 1].index
            wedgeBeginAngle == fixedAngles[i + 1].angle
            wedgeEndIndex   == next.index
            wedgeEndAngle   == WedgeEndAngle(wedgeBeginAngle, next.angle)
            pa == IF hasParent THEN ShiftedParentAngle(parentAngle, wedgeBeginAngle)
                  ELSE parentAngle
            parentInWedge == hasParent /\ ParentInWedge(pa, wedgeBeginAngle, wedgeEndAngle)
            wedgeItemCount ==
                WedgeItemCount(wedgeBeginIndex, wedgeEndIndex, Len(items))
                + (IF parentInWedge THEN 1 ELSE 0)
            wedgeItemGap == WedgeItemGap(wedgeBeginAngle, wedgeEndAngle, wedgeItemCount)
            assigned == AssignWedge(items, (wedgeBeginIndex + 1) % Len(items), 1,
                                    parentInWedge, wedgeEndIndex, wedgeBeginAngle,
                                    wedgeItemGap, pa)
        IN  WedgeLoop(i + 1, fixedAngles, assigned, hasParent, pa)

\* What the recursion into the children of the items returns to its caller.
\* The code returns false from the callback of forEach, which forEach drops.
ChildrenResult(results) == TRUE

\* One level of _updateItemAngles: the checks of the fixed angles of a list and
\* the angles of its items, before the children of the items are visited.
SolveList(items, hasParent, parentAngle) ==
    LET fixedAngles == FixedAngles(items)
        firstAngle == FirstAngle(hasParent, parentAngle)
    IN  IF ~FixedAnglesValid(fixedAngles) \/ ParentCollides(fixedAngles, hasParent, parentAngle)
        THEN [ret |-> FALSE, items |-> items]
        ELSE IF Len(fixedAngles) = 0
        THEN [ret |-> TRUE,
              items |-> WedgeLoop(0, <<[angle |-> firstAngle, index |-> 0]>>,
                                  [items EXCEPT ![1].hasAngle = TRUE, ![1].angle = firstAngle],
                                  hasParent, parentAngle)]
        ELSE [ret |-> TRUE, items |-> WedgeLoop(0, fixedAngles, items, hasParent, parentAngle)]

\* Menu._updateItemAngles(items, parentAngle): what it returns, and the items after it.
RECURSIVE UpdateItemAngles(_, _, _)
UpdateItemAngles(items, hasParent, parentAngle) ==
    IF Len(items) = 0 THEN [ret |-> TRUE, items |-> items]
    ELSE
        LET level == SolveList(items, hasParent, parentAngle)
            sub == [k \in 1..Len(items) |->
                       UpdateItemAngles(level.items[k].children, TRUE,
                                        (level.items[k].angle + Deg(180)) % Deg(360))]
        IN  IF ~level.ret THEN level
            ELSE [ret |-> ChildrenResult([k \in 1..Len(items) |-> sub[k].ret]),
                  items |-> [k \in 1..Len(items) |->
                                [level.items[k] EXCEPT !.children = sub[k].items]]]

-----------------------------------------------------------------------------
(***************************************************************************)
(* Menu._updateItemIDs                                                     *)
(***************************************************************************)

\* Mutation of DefaultID: the index of the item is left out of the path.
DefaultIDNoIndex(hasParentID, parentID, i) ==
    IF hasParentID THEN parentID \o "/" ELSE "/"

\* The default id of the i-th item of a list: a path like /0/2/1.
DefaultID(hasParentID, parentID, i) ==
    IF hasParentID THEN parentID \o "/" \o ToString(i) ELSE "/" \o ToString(i)

\* The id an item has after the call: an id it carries is not touched.
AssignedID(item, hasParentID, parentID, i) ==
    IF item.id = "" THEN DefaultID(hasParentID, parentID, i) ELSE item.id

RECURSIVE UpdateItemIDs(_, _, _)
UpdateItemIDs(items, hasParentID, parentID) ==
    [k \in 1..Len(items) |->
        LET id == AssignedID(items[k], hasParentID, parentID, k - 1)
        IN  [items[k] EXCEPT !.id = id,
                             !.children = UpdateItemIDs(items[k].children, id # "", id)]]

-----------------------------------------------------------------------------
(***************************************************************************)
(* The state of the Menu object and of its collaborators.                  *)
(***************************************************************************)
VARIABLES
    menuID,              \* this._menuID; NoMenuID stands for null
    previewMode,         \* this._previewMode
    draggedChild,        \* this._draggedChild: a reference to a MenuItem, or NullRef
    menuSelectionChain,  \* this._menuSelectionChain: references to MenuItems
    root,                \* this._root: the tree it refers to, or NoTree
    heap,                \* the MenuItem trees that are still referenced
    selectionWedges,     \* what setItemAngles configured in this._selectionWedges
    background,          \* the opacity of this._background and the fade in progress
    ret,                 \* what show() returned, if it was the last operation
    calls,               \* the calls of onSelect, onCancel and of the translation of
                         \* the root that the last operation made, in order
    argItems,            \* the list handed to _updateItemAngles when called alone
    argParent,           \* the parentAngle handed to it
    result,              \* what that call returned, and the list after it
    pc,                  \* "idle"; "call" before and "done" after that call;
                         \* "clamp", "clamped" and "reclamped" around the calls
                         \* of _clampToToMonitor alone
    clampArgs,           \* x, y, margin, the settings and the monitor of that call
    clampRet,            \* what _clampToToMonitor(x, y, margin) returned
    clampAgain,          \* what it returned when called on that result
    pointer,             \* the position that global.get_pointer() returns
    currentSettings      \* the values that this._settings returns

vars == <<menuID, previewMode, draggedChild, menuSelectionChain, root, heap, selectionWedges, background, ret, calls, argItems, argParent, result, pc, clampArgs, clampRet, clampAgain, pointer, currentSettings>>

menuVars == <<menuID, previewMode, draggedChild, menuSelectionChain, root, heap, selectionWedges, background, ret, calls, pointer, currentSettings>>

solverVars == <<argItems, argParent, result, pc>>

clampVars == <<clampArgs, clampRet, clampAgain>>

\* Largest menuID a caller passes; 0 is the one a truthiness test takes for none.
MaxMenuID == 1

\* Number of MenuItem trees that can be referenced at the same time.
MaxTrees == 1

\* The calls of destroy() on one tree are counted up to this number.
MaxDestroyCount == 2

MenuIDs == 0..MaxMenuID
NoMenuID == -1
TreeIds == 1..MaxTrees
NoTree == 0
NullRef == [tree |-> NoTree, path |-> <<>>]

\* DBusInterface.errorCodes
eAlreadyActive == "eAlreadyActive"
ePropertyMissing == "ePropertyMissing"
eInvalidAngles == "eInvalidAngles"
eUnknownError == "eUnknownError"
ErrorCodes == {eAlreadyActive, ePropertyMissing, eInvalidAngles, eUnknownError}

\* What show() returned: an error code, or the menuID.
Failure(code) == [error |-> code, menuID |-> NoMenuID]
Success(id) == [error |-> "", menuID |-> id]
NoReturn == [error |-> "none", menuID |-> NoMenuID]

\* The calls a handler makes that the model records: this._onSelect(menuID, id),
\* this._onCancel(menuID), and root.set_translation (or the assignment of
\* root.translation_x and root.translation_y) on the root of the selection chain.

\* Mutation of OnSelect: the menuID is read after _hide() has cleared it.
OnSelectCleared(id, itemID) == [name |-> "onSelect", menuID |-> NoMenuID, id |-> itemID]

\* this._onSelect(this._menuID, child.id)
OnSelect(id, itemID) == [name |-> "onSelect", menuID |-> id, id |-> itemID]

\* Mutation of OnCancel: the menuID is read after _hide() has cleared it.
OnCancelCleared(id) == [name |-> "onCancel", menuID |-> NoMenuID, id |-> ""]

\* this._onCancel(this._menuID)
OnCancel(id) == [name |-> "onCancel", menuID |-> id, id |-> ""]

\* root.set_translation(...)
RootTranslation == [name |-> "root.set_translation", menuID |-> NoMenuID, id |-> ""]

\* The truthiness of a menuID, as 'if (this._menuID)' tests it.
Truthy(id) == id # NoMenuID /\ id # 0

-----------------------------------------------------------------------------
(***************************************************************************)
(* MenuItems: the tree that show() builds from the structure.              *)
(***************************************************************************)

\* MenuItemState
INVISIBLE == "INVISIBLE"
CENTER == "CENTER"
CENTER_HOVERED == "CENTER_HOVERED"
CHILD_DRAGGED == "CHILD_DRAGGED"
PARENT == "PARENT"
PARENT_HOVERED == "PARENT_HOVERED"

\* createMenuItem in show(): a MenuItem for the item and for each of its children.
RECURSIVE createMenuItem(_)
createMenuItem(item) ==
    [id |-> item.id, caption |-> item.name, icon |-> item.icon,
     hasAngle |-> item.hasAngle, angle |-> item.angle, state |-> INVISIBLE,
     translation |-> <<0, 0>>,
     children |-> [k \in 1..Len(item.children) |-> createMenuItem(item.children[k])]]

\* The MenuItem at a path (the child indices from the root down) of a tree.
RECURSIVE ItemAt(_, _)
ItemAt(item, path) ==
    IF Len(path) = 0 THEN item ELSE ItemAt(item.children[path[1] + 1], Tail(path))

\* MenuItem.setState on the item at a path.
RECURSIVE SetStateAt(_, _, _)
SetStateAt(item, path, state) ==
    IF Len(path) = 0 THEN [item EXCEPT !.state = state]
    ELSE [item EXCEPT !.children[path[1] + 1] =
                          SetStateAt(item.children[path[1] + 1], Tail(path), state)]

\* A slot of the heap that holds no tree.
NoItem == [id |-> "", caption |-> "", icon |-> "", hasAngle |-> FALSE, angle |-> 0, state |-> INVISIBLE, translation |-> <<0, 0>>, children |-> <<>>]
FreeSlot == [used |-> FALSE, destroyed |-> 0, item |-> NoItem]

\* The MenuItem a reference refers to, and its getChildMenuItems().
Deref(h, ref) == ItemAt(h[ref.tree].item, ref.path)
ChildItems(h, ref) == Deref(h, ref).children
ChildRef(ref, index) == [tree |-> ref.tree, path |-> Append(ref.path, index)]

\* The heap after setState(state) on the MenuItem a reference refers to.
SetState(h, ref, state) ==
    [h EXCEPT ![ref.tree].item = SetStateAt(h[ref.tree].item, ref.path, state)]

\* Points and offsets: <<x, y>>.
Plus(a, b) == <<a[1] + b[1], a[2] + b[2]>>
Minus(a, b) == <<a[1] - b[1], a[2] - b[2]>>

\* MenuItem.set_translation(x, y, 0) on the item at a path.
RECURSIVE SetTranslationAt(_, _, _)
SetTranslationAt(item, path, translation) ==
    IF Len(path) = 0 THEN [item EXCEPT !.translation = translation]
    ELSE [item EXCEPT !.children[path[1] + 1] =
                          SetTranslationAt(item.children[path[1] + 1], Tail(path), translation)]

\* The heap after set_translation(x, y, 0) on the MenuItem a reference refers to.
SetTranslation(h, ref, translation) ==
    [h EXCEPT ![ref.tree].item = SetTranslationAt(h[ref.tree].item, ref.path, translation)]

\* The position of this._background on the stage.
BackgroundOrigin == <<0, 0>>

\* The offset of the item at a path from the parent of the root of its tree:
\* the translations of the item and of the items above it add up.
RECURSIVE OffsetAt(_, _)
OffsetAt(item, path) ==
    IF Len(path) = 0 THEN item.translation
    ELSE Plus(item.translation, OffsetAt(item.children[path[1] + 1], Tail(path)))

\* The position on the stage of the MenuItem a reference refers to; the root
\* of a tree is a child of this._background.
StagePosition(h, ref) == Plus(BackgroundOrigin, OffsetAt(h[ref.tree].item, ref.path))

\* item.transform_stage_point(x, y): the point relative to the item.
TransformStagePoint(h, ref, point) == Minus(point, StagePosition(h, ref))

\* item.get_parent().get_parent(): the MenuItem an item is a child of.
ParentItem(ref) == [tree |-> ref.tree, path |-> SubSeq(ref.path, 1, Len(ref.path) - 1)]

\* The heap after destroy() on a tree.
Destroy(h, t) ==
    [h EXCEPT ![t].destroyed =
        IF h[t].destroyed < MaxDestroyCount THEN h[t].destroyed + 1 ELSE h[t].destroyed]

\* The trees that the Menu still refers to; the others are garbage.
Referenced(r, chain, dragged) ==
    ({r} \cup {chain[k].tree : k \in 1..Len(chain)} \cup {dragged.tree}) \ {NoTree}

Collect(h, r, chain, dragged) ==
    [t \in DOMAIN h |-> IF t \in Referenced(r, chain, dragged) THEN h[t] ELSE FreeSlot]

\* The angle property of an item as a value: undefined when it has none.
AngleOf(item) == [defined |-> item.hasAngle, angle |-> IF item.hasAngle THEN item.angle ELSE 0]
NoAngle == [defined |-> FALSE, angle |-> 0]

\* (item.angle + 180) % 360, the direction of the link back to the parent.
ParentLinkAngle(item) ==
    IF item.hasAngle THEN [defined |-> TRUE, angle |-> (item.angle + Deg(180)) % Deg(360)]
    ELSE NoAngle

\* Mutation of ItemAngles: the angle of the item itself instead of its children's.
ItemAnglesOwn(item) == <<AngleOf(item)>>

\* The angles of the children of an item, as pushed to itemAngles.
ItemAngles(item) == [k \in 1..Len(item.children) |-> AngleOf(item.children[k])]

\* SelectionWedges.setItemAngles(itemAngles, parentAngle)
SetItemAngles(itemAngles, hasParent, parentAngle) ==
    [itemAngles |-> itemAngles, hasParent |-> hasParent, parentAngle |-> parentAngle]


-----------------------------------------------------------------------------
(***************************************************************************)
(* The structures handed to show().                                        *)
(***************************************************************************)
Leaf == Plain(<<>>)
WithID(id, children) == Item(id, FALSE, 0, children)

\* n items without properties.
Flat(n) == [k \in 1..n |-> Leaf]

\* The structures shown while the events of a menu are followed.
MenuStructures ==
    { Plain(Flat(0)),
      Plain(Flat(2)),
      Plain(<<Fixed(30, <<>>), Fixed(10, <<>>)>>),
      Plain(<<Plain(<<Plain(Flat(1))>>), Leaf>>) }

Structures ==
    MenuStructures \cup {Plain(Flat(n)) : n \in 0..MaxItems} \cup
    { \* fixed angles: valid, out of order, out of range, negative
      Plain(<<Fixed(0, <<>>), Leaf, Fixed(180, <<>>)>>),
      Plain(<<Fixed(30, <<>>), Fixed(10, <<>>)>>),
      Plain(<<Leaf, Fixed(360, <<>>)>>),
      Plain(<<Fixed(-1, <<>>), Leaf>>),
      \* three levels
      Plain(<<Plain(<<Plain(Flat(2)), Leaf>>), Leaf>>),
      \* lists below the root with fixed angles that are out of order, or
      \* that collide with the link to the parent
      Plain(<<Plain(<<Fixed(30, <<>>), Fixed(10, <<>>), Plain(Flat(1))>>), Leaf>>),
      Plain(<<Fixed(90, <<Fixed(270, <<>>), Leaf>>)>>),
      \* ids supplied by the caller
      Plain(<<WithID("a", Flat(1)), Leaf>>),
      Plain(<<WithID("/1", <<>>), Leaf>>),
      Plain(<<WithID("a", <<>>), WithID("a", <<>>)>>),
      [Plain(<<WithID("/", <<>>)>>) EXCEPT !.name = "menu", !.icon = "icon", !.id = "x"] }

-----------------------------------------------------------------------------
(***************************************************************************)
(* _clampToToMonitor.  Lengths are integers in units of 1/Unit pixel.  The *)
(* sizes and offsets of the settings are multiples of half a pixel and     *)
(* global-scale is a multiple of 1/2, so that every division by two of the *)
(* code is exact in these units.                                           *)
(***************************************************************************)
Unit == 8
Px(n) == n * Unit
HalfPx(n) == n * (Unit \div 2)

Max(a, b) == IF a >= b THEN a ELSE b
Min(a, b) == IF a <= b THEN a ELSE b

\* Mutation of Floor: the largest integer below the value.
FloorBelow(v) == ((v - 1) \div Unit) * Unit

\* Math.floor
Floor(v) == (v \div Unit) * Unit

\* The theoretically largest extent: maxSize after 'maxSize *= 2 * global-scale'.
\* settings.twiceGlobalScale is 2 * global-scale.
MaxSize(settings) ==
    LET wedgeRadius == settings.wedgeInnerRadius
        centerRadius == Max(settings.centerSize \div 2, settings.centerSizeHover \div 2)
        childRadius == Max(settings.childSize \div 2 + settings.childOffset,
                           settings.childSizeHover \div 2 + settings.childOffsetHover)
        grandchildRadius ==
            Max(settings.childOffset + settings.grandchildSize \div 2 + settings.grandchildOffset,
                settings.childOffsetHover + settings.grandchildSizeHover \div 2
                    + settings.grandchildOffsetHover)
    IN  Max(Max(Max(wedgeRadius, centerRadius), childRadius), grandchildRadius)
            * settings.twiceGlobalScale

\* min, and maxX or maxY for the size of the monitor along the axis.
ClampMin(margin, settings) == margin + MaxSize(settings) \div 2
ClampMax(size, margin, settings) == size - ClampMin(margin, settings)

\* Mutation of ClampAxis: the upper bound is not applied.
ClampAxisLowerOnly(v, min, max) == Max(v, min)

\* Math.min(Math.max(v, min), max)
ClampAxis(v, min, max) == Min(Max(v, min), max)

\* Menu._clampToToMonitor(x, y, margin)
ClampToMonitor(x, y, margin, settings, monitor) ==
    LET min == ClampMin(margin, settings)
        maxX == ClampMax(monitor.width, margin, settings)
        maxY == ClampMax(monitor.height, margin, settings)
        posX == ClampAxis(x, min, maxX)
        posY == ClampAxis(y, min, maxY)
    IN  <<Floor(posX), Floor(posY)>>

-----------------------------------------------------------------------------
(***************************************************************************)
(* The placement of the items at the pointer.                              *)
(***************************************************************************)
\* Main.layoutManager.currentMonitor, which this._background covers.
CurrentMonitor == [width |-> Px(64), height |-> Px(48)]

\* this._clampToToMonitor(pointerX, pointerY, 10) on what global.get_pointer() returns.
ClampedPointer ==
    ClampToMonitor(pointer[1], pointer[2], Px(10), currentSettings, CurrentMonitor)

\* (this._background.width / 2, this._background.height / 2)
CenterOfBackground == <<CurrentMonitor.width \div 2, CurrentMonitor.height \div 2>>

\* Math.floor(Math.sqrt(n)) and Math.ceil(Math.sqrt(n)) for a squared length n,
\* the roots being at most bound pixels.
SqrtFloor(n, bound) ==
    Px(CHOOSE m \in 0..bound : Px(m) * Px(m) <= n /\ n < Px(m + 1) * Px(m + 1))
SqrtCeil(n, bound) ==
    Px(CHOOSE m \in 0..bound : Px(m) * Px(m) >= n /\ (m = 0 \/ Px(m - 1) * Px(m - 1) < n))

\* trace-min-length * global-scale
TraceMinLength(s) == (s.traceMinLength * s.twiceGlobalScale) \div 2

\* (idealX, idealY) of child-selected: where the child is placed relative to its
\* parent, at its angle and at the distance idealTraceLength, the larger of the
\* minimum trace length and the distance of the point relative to the parent.
\* Math.sin and Math.cos of 0, 90, 180 and 270 degrees give 0, 1 or -1, except
\* Math.cos at 90 degrees and Math.sin at 180 degrees, which give a number a
\* little above 0, and Math.cos at 270 degrees, which gives one a little below
\* 0, whose product with a positive length has the floor -1.
IdealOffset(angle, relative, s) ==
    LET n      == relative[1] * relative[1] + relative[2] * relative[2]
        bound  == (Abs(relative[1]) + Abs(relative[2])) \div Unit + 1
        floorL == Max(Floor(TraceMinLength(s)), SqrtFloor(n, bound))
        ceilL  == Max(-Floor(-TraceMinLength(s)), SqrtCeil(n, bound))
    IN  CASE angle = Deg(0)   -> <<0, -floorL>>
          [] angle = Deg(90)  -> <<floorL, 0>>
          [] angle = Deg(180) -> <<0, ceilL>>
          [] angle = Deg(270) -> <<-ceilL, IF TraceMinLength(s) > 0 \/ n > 0 THEN Px(1) ELSE 0>>

-----------------------------------------------------------------------------
(***************************************************************************)
(* The operations of the Menu.                                             *)
(***************************************************************************)
\* Background.show(previewMode) when it succeeds: the background fades in.
BackgroundShow(bg) == [bg EXCEPT !.fading = "in"]

\* Background.hide(): the background fades out.
BackgroundHide(bg) == [bg EXCEPT !.fading = "out"]

\* The end of a fade: the opacity it led to, with no fade left in progress.
FadeCompleted(bg) == [opacity |-> IF bg.fading = "out" THEN 0 ELSE 255, fading |-> "none"]

\* The root item of the structure as show() prepares it.
PreparedRoot(structure, children) ==
    [structure EXCEPT !.name = IF @ = "" THEN "root" ELSE @,
                      !.icon = IF @ = "" THEN "image-missing" ELSE @,
                      !.hasAngle = TRUE, !.angle = 0, !.id = "/",
                      !.children = children]

\* Mutation of AlreadyActive: a tree that still exists counts as an active menu.
ActiveOrClosing == menuID # NoMenuID \/ root # NoTree

\* The test of show() for an active menu.
AlreadyActive == Truthy(menuID)

\* What show() does to a previous tree: this._root.destroy().
RemovePrevious(h, r) == IF r # NoTree THEN Destroy(h, r) ELSE h

\* The slot for a new tree: the least that nothing but this._root refers to.
NewTree == CHOOSE t \in DOMAIN heap \ Referenced(NoTree, menuSelectionChain, draggedChild) : \A u \in DOMAIN heap \ Referenced(NoTree, menuSelectionChain, draggedChild) : t <= u

\* Menu.show(menuID, structure, previewMode).  this._background.show(previewMode)
\* returns false or true: either show() returns eUnknownError, or it opens the menu.
Show(id, structure, preview) ==
    LET solved == UpdateItemAngles(structure.children, FALSE, 0)
        rootItem == PreparedRoot(structure, UpdateItemIDs(solved.items, FALSE, ""))
        placed == IF preview THEN CenterOfBackground ELSE ClampedPointer
        menuItem == SetTranslationAt(SetStateAt(createMenuItem(rootItem), <<>>, CENTER_HOVERED),
                                     <<>>, placed)
        removed == RemovePrevious(heap, root)
    IN  /\ pc = "idle"
        /\ IF AlreadyActive
           THEN /\ ret' = Failure(eAlreadyActive)
                /\ calls' = <<>>
                /\ UNCHANGED <<menuID, previewMode, draggedChild, menuSelectionChain, root, heap, selectionWedges, background, pointer>>
           ELSE IF Len(structure.children) = 0
           THEN /\ ret' = Failure(ePropertyMissing)
                /\ calls' = <<>>
                /\ UNCHANGED <<menuID, previewMode, draggedChild, menuSelectionChain, root, heap, selectionWedges, background, pointer>>
           ELSE IF ~solved.ret
           THEN /\ ret' = Failure(eInvalidAngles)
                /\ calls' = <<>>
                /\ previewMode' = preview
                /\ heap' = removed
                /\ UNCHANGED <<menuID, draggedChild, menuSelectionChain, root, selectionWedges, background, pointer>>
           ELSE \/ /\ ret' = Failure(eUnknownError)
                   /\ calls' = <<>>
                   /\ previewMode' = preview
                   /\ heap' = removed
                   /\ UNCHANGED <<menuID, draggedChild, menuSelectionChain, root, selectionWedges, background, pointer>>
                \/ /\ DOMAIN heap \ Referenced(NoTree, menuSelectionChain, draggedChild) # {}
                   /\ ret' = Success(id)
                   /\ calls' = <<RootTranslation>>
                   /\ menuID' = id
                   /\ previewMode' = preview
                   /\ root' = NewTree
                   /\ menuSelectionChain' = Append(menuSelectionChain, [tree |-> NewTree, path |-> <<>>])
                   /\ heap' = Collect([removed EXCEPT ![NewTree] = [used |-> TRUE, destroyed |-> 0, item |-> menuItem]],
                                      NewTree, menuSelectionChain', draggedChild)
                   /\ selectionWedges' = SetItemAngles(ItemAngles(menuItem), FALSE, NoAngle)
                   /\ background' = BackgroundShow(background)
                   /\ pointer' = IF preview THEN pointer ELSE ClampedPointer
                   /\ UNCHANGED draggedChild
        /\ UNCHANGED <<solverVars, clampVars, currentSettings>>

\* Mutation of Hide: without the test for an active menu.
HideUnguarded ==
    /\ background' = BackgroundHide(background)
    /\ menuID' = NoMenuID
    /\ draggedChild' = NullRef
    /\ menuSelectionChain' = <<>>

\* Menu._hide()
Hide ==
    IF menuID = NoMenuID
    THEN UNCHANGED <<background, menuID, draggedChild, menuSelectionChain>>
    ELSE /\ background' = BackgroundHide(background)
         /\ menuID' = NoMenuID
         /\ draggedChild' = NullRef
         /\ menuSelectionChain' = <<>>

\* The handler of cancel-selection-event: onCancel, then _hide.
CancelSelection ==
    /\ pc = "idle"
    /\ ret' = NoReturn
    /\ calls' = <<OnCancel(menuID)>>
    /\ Hide
    /\ heap' = Collect(heap, root, menuSelectionChain', draggedChild')
    /\ UNCHANGED <<previewMode, root, selectionWedges>>
    /\ UNCHANGED <<solverVars, clampVars, pointer, currentSettings>>

\* The handler of close-event: onCancel, then _hide.
CloseEvent ==
    /\ pc = "idle"
    /\ ret' = NoReturn
    /\ calls' = <<OnCancel(menuID)>>
    /\ Hide
    /\ heap' = Collect(heap, root, menuSelectionChain', draggedChild')
    /\ UNCHANGED <<previewMode, root, selectionWedges>>
    /\ UNCHANGED <<solverVars, clampVars, pointer, currentSettings>>

\* The handler of transitions-completed, when a fade of the background ends.
TransitionsCompleted ==
    /\ pc = "idle"
    /\ background.fading # "none"
    /\ ret' = NoReturn
    /\ calls' = <<>>
    /\ background' = FadeCompleted(background)
    /\ IF background'.opacity = 0 /\ root # NoTree
       THEN /\ root' = NoTree
            /\ heap' = Collect(Destroy(heap, root), NoTree, menuSelectionChain, draggedChild)
       ELSE UNCHANGED <<root, heap>>
    /\ UNCHANGED <<menuID, previewMode, draggedChild, menuSelectionChain, selectionWedges>>
    /\ UNCHANGED <<solverVars, clampVars, pointer, currentSettings>>


-----------------------------------------------------------------------------
(***************************************************************************)
(* The handlers of the events of the SelectionWedges.  The wedges report   *)
(* the indices of the item angles they were configured with, and the       *)
(* parent wedge only when they were configured with a parent angle.  A     *)
(* handler that reads a MenuItem that does not exist throws at that        *)
(* statement: the statements before it have acted, the ones after it have  *)
(* not.  A handler that would throw at its first statement changes         *)
(* nothing and is left out by the guards.  button is the state of the      *)
(* primary button that global.get_pointer() reports.                       *)
(***************************************************************************)
WedgeIndices == 0..(Len(selectionWedges.itemAngles) - 1)

HasChild(h, ref, index) == index >= 0 /\ index < Len(ChildItems(h, ref))

\* this._menuSelectionChain.unshift(item)
Unshift(chain, item) == <<item>> \o chain

\* this._menuSelectionChain.shift()
Shift(chain) == Tail(chain)

\* What motion-event does when there is a dragged child: it gets the position
\* of the event relative to its parent as its translation.
Dragged(h, child, coords) ==
    SetTranslation(h, child, TransformStagePoint(h, ParentItem(child), coords))

\* The handler of motion-event.  index is what getHoveredChild() returns: -1 or
\* the index of a wedge; button is the state of the primary button in the event.
\* The coordinates of the event are the position of the pointer.
MotionEvent(index, button) ==
    LET center == menuSelectionChain[1]
        h1 == SetState(heap, ChildRef(center, index), CHILD_DRAGGED)
    IN  /\ pc = "idle"
        /\ ret' = NoReturn
        /\ calls' = <<>>
        /\ IF /\ button
              /\ draggedChild = NullRef
              /\ index >= 0
              /\ Len(menuSelectionChain) > 0
              /\ HasChild(heap, center, index)
           THEN /\ heap' = Dragged(h1, ChildRef(center, index), pointer)
                /\ draggedChild' = ChildRef(center, index)
           ELSE /\ heap' = IF draggedChild # NullRef
                            THEN Dragged(heap, draggedChild, pointer) ELSE heap
                /\ UNCHANGED draggedChild
        /\ UNCHANGED <<menuID, previewMode, menuSelectionChain, root, selectionWedges, background>>
        /\ UNCHANGED <<solverVars, clampVars, pointer, currentSettings>>

\* Mutation of HoveredCenterState: CENTER whatever is hovered.
AlwaysCenter(index) == CENTER

\* The state child-hovered gives the center: hovered itself when no child is.
HoveredCenterState(index) == IF index = -1 THEN CENTER_HOVERED ELSE CENTER

\* The handler of child-hovered-event.
ChildHovered(index, button) ==
    LET center == menuSelectionChain[1]
        h1 == SetState(heap, center, HoveredCenterState(index))
        h2 == IF Len(menuSelectionChain) > 1
              THEN SetState(h1, menuSelectionChain[2], PARENT) ELSE h1
    IN  /\ pc = "idle"
        /\ Len(menuSelectionChain) > 0
        /\ ret' = NoReturn
        /\ calls' = <<>>
        /\ IF button /\ index >= 0
           THEN IF HasChild(heap, center, index)
                THEN /\ heap' = SetState(h2, ChildRef(center, index), CHILD_DRAGGED)
                     /\ draggedChild' = ChildRef(center, index)
                ELSE /\ heap' = h2
                     /\ UNCHANGED draggedChild
           ELSE /\ heap' = Collect(h2, root, menuSelectionChain, NullRef)
                /\ draggedChild' = NullRef
        /\ UNCHANGED <<menuID, previewMode, menuSelectionChain, root, selectionWedges, background>>
        /\ UNCHANGED <<solverVars, clampVars, pointer, currentSettings>>

\* Mutation of IgnoredSelection: no selection is ignored.
IgnoredNever(button, isLeaf) == FALSE

\* The test of child-selected for a selection to ignore: a gesture (the primary
\* button is held) that selects a child without children.
IgnoredSelection(button, isLeaf) == button /\ isLeaf

\* The handler of child-selected-event.
ChildSelected(index, button) ==
    LET parent == menuSelectionChain[1]
        child == ChildRef(parent, index)
        h1 == SetState(heap, parent, PARENT)
        h2 == SetState(h1, child, CENTER_HOVERED)
        isLeaf == Len(ChildItems(heap, child)) = 0
        chainRoot == menuSelectionChain[Len(menuSelectionChain)]
        relative == TransformStagePoint(heap, parent, ClampedPointer)
        ideal == IdealOffset(Deref(heap, child).angle, relative, currentSettings)
        h3 == SetTranslation(h2, chainRoot,
                             Plus(Deref(heap, chainRoot).translation, Minus(relative, ideal)))
        h4 == SetTranslation(h3, child, ideal)
    IN  /\ pc = "idle"
        /\ Len(menuSelectionChain) > 0
        /\ ret' = NoReturn
        /\ IF ~HasChild(heap, parent, index)
           THEN IF button
                THEN /\ calls' = <<>>
                     /\ UNCHANGED <<menuID, draggedChild, menuSelectionChain, heap, selectionWedges, background, pointer>>
                ELSE /\ calls' = <<>>
                     /\ draggedChild' = NullRef
                     /\ heap' = Collect(h1, root, menuSelectionChain, NullRef)
                     /\ UNCHANGED <<menuID, menuSelectionChain, selectionWedges, background, pointer>>
           ELSE IF IgnoredSelection(button, isLeaf)
           THEN /\ calls' = <<>>
                /\ UNCHANGED <<menuID, draggedChild, menuSelectionChain, heap, selectionWedges, background, pointer>>
           ELSE IF ~isLeaf
           THEN /\ calls' = <<RootTranslation>>
                /\ draggedChild' = NullRef
                /\ menuSelectionChain' = Unshift(menuSelectionChain, child)
                /\ pointer' = ClampedPointer
                /\ heap' = Collect(h4, root, menuSelectionChain', NullRef)
                /\ selectionWedges' = SetItemAngles(ItemAngles(Deref(heap, child)), TRUE,
                                                    ParentLinkAngle(Deref(heap, child)))
                /\ UNCHANGED <<menuID, background>>
           ELSE /\ calls' = <<RootTranslation, OnSelect(menuID, Deref(heap, child).id)>>
                /\ IF menuID = NoMenuID
                   THEN /\ draggedChild' = NullRef
                        /\ menuSelectionChain' = Unshift(menuSelectionChain, child)
                        /\ UNCHANGED <<menuID, background>>
                   ELSE Hide
                /\ pointer' = ClampedPointer
                /\ heap' = Collect(h4, root, menuSelectionChain', draggedChild')
                /\ UNCHANGED selectionWedges
        /\ UNCHANGED <<previewMode, root>>
        /\ UNCHANGED <<solverVars, clampVars, currentSettings>>

\* The handler of parent-hovered-event.
ParentHovered ==
    LET h1 == SetState(heap, menuSelectionChain[1], CENTER_HOVERED)
    IN  /\ pc = "idle"
        /\ Len(menuSelectionChain) > 0
        /\ selectionWedges.hasParent
        /\ ret' = NoReturn
        /\ calls' = <<>>
        /\ IF Len(menuSelectionChain) > 1
           THEN /\ draggedChild' = NullRef
                /\ heap' = Collect(SetState(h1, menuSelectionChain[2], PARENT_HOVERED),
                                   root, menuSelectionChain, NullRef)
           ELSE /\ heap' = h1
                /\ UNCHANGED draggedChild
        /\ UNCHANGED <<menuID, previewMode, menuSelectionChain, root, selectionWedges, background>>
        /\ UNCHANGED <<solverVars, clampVars, pointer, currentSettings>>

\* The handler of parent-selected-event.
ParentSelected ==
    LET parent == menuSelectionChain[2]
        h1 == SetState(heap, parent, CENTER_HOVERED)
        chainRoot == menuSelectionChain[Len(menuSelectionChain)]
        relative == TransformStagePoint(heap, parent, ClampedPointer)
        h2 == SetTranslation(h1, chainRoot, Plus(Deref(heap, chainRoot).translation, relative))
    IN  /\ pc = "idle"
        /\ Len(menuSelectionChain) > 1
        /\ selectionWedges.hasParent
        /\ ret' = NoReturn
        /\ calls' = <<RootTranslation>>
        /\ pointer' = ClampedPointer
        /\ menuSelectionChain' = Shift(menuSelectionChain)
        /\ selectionWedges' =
               IF Len(menuSelectionChain') > 1
               THEN SetItemAngles(ItemAngles(Deref(heap, parent)), TRUE,
                                  ParentLinkAngle(Deref(heap, parent)))
               ELSE SetItemAngles(ItemAngles(Deref(heap, parent)), FALSE, NoAngle)
        /\ draggedChild' = NullRef
        /\ heap' = Collect(h2, root, menuSelectionChain', NullRef)
        /\ UNCHANGED <<menuID, previewMode, root, background>>
        /\ UNCHANGED <<solverVars, clampVars, currentSettings>>

-----------------------------------------------------------------------------
(***************************************************************************)
(* The menu: a Menu as its constructor leaves it, and every operation.     *)
(***************************************************************************)
\* Settings with every size and offset 0, for the states without a call of
\* _clampToToMonitor alone, where they are not read.
NoSettings ==
    [wedgeInnerRadius |-> 0, centerSize |-> 0, centerSizeHover |-> 0, childSize |-> 0,
     childOffset |-> 0, childSizeHover |-> 0, childOffsetHover |-> 0, grandchildSize |-> 0,
     grandchildOffset |-> 0, grandchildSizeHover |-> 0, grandchildOffsetHover |-> 0,
     twiceGlobalScale |-> 2, traceMinLength |-> 0]

\* Settings without and with a minimum length of the trace.
PlaceSettings == {NoSettings, [NoSettings EXCEPT !.traceMinLength = Px(12)]}

\* The pointer rests in the center of the monitor, and nothing is configured.
PointerAtRest ==
    /\ pointer = CenterOfBackground
    /\ currentSettings = NoSettings

\* No call of _clampToToMonitor alone.
ClampIdle ==
    /\ clampArgs = [x |-> 0, y |-> 0, margin |-> 0, settings |-> NoSettings,
                    monitor |-> [width |-> 0, height |-> 0]]
    /\ clampRet = <<0, 0>>
    /\ clampAgain = <<0, 0>>

SolverIdle ==
    /\ argItems = <<>>
    /\ argParent = NoAngle
    /\ result = [ret |-> TRUE, items |-> <<>>]
    /\ pc = "idle"

Init ==
    /\ menuID = NoMenuID
    /\ previewMode = FALSE
    /\ draggedChild = NullRef
    /\ menuSelectionChain = <<>>
    /\ root = NoTree
    /\ heap = [t \in TreeIds |-> FreeSlot]
    /\ selectionWedges = SetItemAngles(<<>>, FALSE, NoAngle)
    /\ background = [opacity |-> 0, fading |-> "none"]
    /\ ret = NoReturn
    /\ calls = <<>>
    /\ PointerAtRest
    /\ SolverIdle
    /\ ClampIdle

Next ==
    \/ \E id \in MenuIDs, structure \in MenuStructures, preview \in BOOLEAN : Show(id, structure, preview)
    \/ CancelSelection
    \/ CloseEvent
    \/ TransitionsCompleted
    \/ \E index \in {-1} \cup WedgeIndices, button \in BOOLEAN : ChildHovered(index, button)
    \/ \E index \in WedgeIndices, button \in BOOLEAN : ChildSelected(index, button)
    \/ ParentHovered
    \/ ParentSelected
    \/ \E index \in {-1} \cup WedgeIndices, button \in BOOLEAN : MotionEvent(index, button)

Spec == Init /\ [][Next]_vars

-----------------------------------------------------------------------------
(***************************************************************************)
(* The show / hide lifecycle alone, over every structure.                  *)
(***************************************************************************)
NextShow ==
    \/ \E id \in MenuIDs, structure \in Structures, preview \in BOOLEAN : Show(id, structure, preview)
    \/ CancelSelection
    \/ CloseEvent
    \/ TransitionsCompleted

SpecShow == Init /\ [][NextShow]_vars

-----------------------------------------------------------------------------
(***************************************************************************)
(* The menu with room for one more tree than in Spec, so that the tree of  *)
(* a menu that is replaced while its items are still referenced can be     *)
(* followed.  Only menus that open are shown, all with menuID 0, the      *)
(* primary button is not held, and the pointer rests; the trace has a      *)
(* minimum length or none.                                                 *)
(***************************************************************************)
ReshowStructures == {Plain(Flat(2)), Plain(<<Plain(<<Plain(Flat(1))>>), Leaf>>)}

InitReshow ==
    /\ menuID = NoMenuID
    /\ previewMode = FALSE
    /\ draggedChild = NullRef
    /\ menuSelectionChain = <<>>
    /\ root = NoTree
    /\ heap = [t \in 1..(MaxTrees + 1) |-> FreeSlot]
    /\ selectionWedges = SetItemAngles(<<>>, FALSE, NoAngle)
    /\ background = [opacity |-> 0, fading |-> "none"]
    /\ ret = NoReturn
    /\ calls = <<>>
    /\ pointer = CenterOfBackground
    /\ currentSettings \in PlaceSettings
    /\ SolverIdle
    /\ ClampIdle

\* The roots of the trees are on the monitor.  A root that is translated on
\* every selection while the center stays where it is leaves the monitor
\* after some selections; the selections are followed up to there.
RootsOnMonitor ==
    \A t \in DOMAIN heap :
        /\ heap[t].item.translation[1] \in 0..CurrentMonitor.width
        /\ heap[t].item.translation[2] \in 0..CurrentMonitor.height

NextReshow ==
    \/ \E structure \in ReshowStructures : Show(0, structure, FALSE)
    \/ CancelSelection
    \/ TransitionsCompleted
    \/ \E index \in {-1} \cup WedgeIndices : ChildHovered(index, FALSE)
    \/ \E index \in WedgeIndices : RootsOnMonitor /\ ChildSelected(index, FALSE)
    \/ RootsOnMonitor /\ ParentSelected

SpecReshow == InitReshow /\ [][NextReshow]_vars

-----------------------------------------------------------------------------
(***************************************************************************)
(* The menu while the pointer moves: a menu of two levels is shown with    *)
(* a menuID that is not 0, at the pointer, with or without a minimum       *)
(* length of the trace, and the pointer moves between the events to a      *)
(* point inside and a point outside of the monitor.                        *)
(***************************************************************************)
PlaceStructures == {Plain(<<Plain(Flat(1)), Leaf>>)}

\* The center of the monitor, and a point outside of the range that
\* _clampToToMonitor leaves.
PlacePointers == {CenterOfBackground, <<0, 0>>}

\* The pointer moves to a point; global.get_pointer() returns it from then on.
PointerMoved(point) ==
    /\ pc = "idle"
    /\ point # pointer
    /\ pointer' = point
    /\ UNCHANGED <<menuID, previewMode, draggedChild, menuSelectionChain, root, heap, selectionWedges, background, ret, calls, currentSettings>>
    /\ UNCHANGED <<solverVars, clampVars>>

InitPlace ==
    /\ menuID = NoMenuID
    /\ previewMode = FALSE
    /\ draggedChild = NullRef
    /\ menuSelectionChain = <<>>
    /\ root = NoTree
    /\ heap = [t \in TreeIds |-> FreeSlot]
    /\ selectionWedges = SetItemAngles(<<>>, FALSE, NoAngle)
    /\ background = [opacity |-> 0, fading |-> "none"]
    /\ ret = NoReturn
    /\ calls = <<>>
    /\ pointer = CenterOfBackground
    /\ currentSettings \in PlaceSettings
    /\ SolverIdle
    /\ ClampIdle

NextPlace ==
    \/ \E point \in PlacePointers : PointerMoved(point)
    \/ \E structure \in PlaceStructures : Show(1, structure, FALSE)
    \/ CancelSelection
    \/ TransitionsCompleted
    \/ \E index \in WedgeIndices, button \in BOOLEAN : ChildSelected(index, button)
    \/ ParentSelected
    \/ \E index \in {-1} \cup WedgeIndices, button \in BOOLEAN : MotionEvent(index, button)

SpecPlace == InitPlace /\ [][NextPlace]_vars

-----------------------------------------------------------------------------
(***************************************************************************)
(* _updateItemAngles called alone on one list: the list has 1 to MaxItems  *)
(* items, each without an angle or with one of SuppliedAngles; the first   *)
(* item may have children; the parentAngle is absent or one of             *)
(* ParentAngles.                                                           *)
(***************************************************************************)
\* Supplied angles, in degrees: negative, in range, and out of range.
SuppliedAngles == {-1, 0, 10, 30, 200, 359, 360}

\* Parent angles, in half degrees: 0, 10.5, 11, 29, 179.5, 180, 200.5, 359.5.
ParentAngles == {HalfDeg(h) : h \in {0, 21, 22, 58, 359, 360, 401, 719}}

ListItems == {Leaf} \cup {Fixed(d, <<>>) : d \in SuppliedAngles}

ChildLists == {<<>>, <<Leaf, Leaf>>, <<Fixed(30, <<>>), Fixed(10, <<>>)>>}

Lists ==
    UNION {{[k \in 1..n |-> IF k = 1 THEN [f[k] EXCEPT !.children = c] ELSE f[k]] :
               f \in [1..n -> ListItems], c \in ChildLists} : n \in 1..MaxItems}

InitAngles ==
    /\ menuID = NoMenuID
    /\ previewMode = FALSE
    /\ draggedChild = NullRef
    /\ menuSelectionChain = <<>>
    /\ root = NoTree
    /\ heap = [t \in TreeIds |-> FreeSlot]
    /\ selectionWedges = SetItemAngles(<<>>, FALSE, NoAngle)
    /\ background = [opacity |-> 0, fading |-> "none"]
    /\ ret = NoReturn
    /\ calls = <<>>
    /\ PointerAtRest
    /\ argItems \in Lists
    /\ argParent \in {NoAngle} \cup {[defined |-> TRUE, angle |-> a] : a \in ParentAngles}
    /\ result = [ret |-> TRUE, items |-> <<>>]
    /\ pc = "call"
    /\ ClampIdle

\* The call this._updateItemAngles(argItems, argParent).
CallUpdateItemAngles ==
    /\ pc = "call"
    /\ result' = UpdateItemAngles(argItems, argParent.defined, argParent.angle)
    /\ pc' = "done"
    /\ UNCHANGED <<argItems, argParent>>
    /\ UNCHANGED <<menuVars, clampVars>>

NextAngles == CallUpdateItemAngles

SpecAngles == InitAngles /\ [][NextAngles]_vars

-----------------------------------------------------------------------------
(***************************************************************************)
(* _clampToToMonitor called alone, and called again on the point it        *)
(* returned, with the same margin, settings and monitor.                   *)
(***************************************************************************)
\* Settings that differ in which radius is the largest: the wedges (2 px),
\* the hovered children at global-scale 1.5 (5.25 px), the grandchildren
\* (20 px), the hovered center (12.5 px).
ClampSettings ==
    LET small == [wedgeInnerRadius |-> Px(2), centerSize |-> Px(2), centerSizeHover |-> Px(3),
                  childSize |-> Px(1), childOffset |-> 0, childSizeHover |-> Px(1),
                  childOffsetHover |-> 0, grandchildSize |-> Px(1), grandchildOffset |-> 0,
                  grandchildSizeHover |-> Px(1), grandchildOffsetHover |-> 0,
                  twiceGlobalScale |-> 2, traceMinLength |-> 0]
    IN  { small,
          [small EXCEPT !.childSizeHover = Px(5), !.childOffsetHover = Px(1), !.twiceGlobalScale = 3],
          [small EXCEPT !.childOffset = Px(10), !.grandchildSize = Px(10), !.grandchildOffset = Px(5)],
          [small EXCEPT !.centerSizeHover = Px(25)] }

\* Points of the pointer and points between pixels, outside and inside.
ClampXs == {Px(-5), 0, HalfPx(21), Px(12), Px(30), Px(100), Px(250)}
ClampYs == {0, HalfPx(45) + 1, Px(50), Px(99)}
ClampMargins == {0, Px(10), HalfPx(21) - 1}
ClampMonitors == {[width |-> Px(40), height |-> Px(30)], [width |-> Px(200), height |-> Px(100)]}

InitClamp ==
    /\ menuID = NoMenuID
    /\ previewMode = FALSE
    /\ draggedChild = NullRef
    /\ menuSelectionChain = <<>>
    /\ root = NoTree
    /\ heap = [t \in TreeIds |-> FreeSlot]
    /\ selectionWedges = SetItemAngles(<<>>, FALSE, NoAngle)
    /\ background = [opacity |-> 0, fading |-> "none"]
    /\ ret = NoReturn
    /\ calls = <<>>
    /\ PointerAtRest
    /\ argItems = <<>>
    /\ argParent = NoAngle
    /\ result = [ret |-> TRUE, items |-> <<>>]
    /\ pc = "clamp"
    /\ clampArgs \in [x : ClampXs, y : ClampYs, margin : ClampMargins,
                      settings : ClampSettings, monitor : ClampMonitors]
    /\ clampRet = <<0, 0>>
    /\ clampAgain = <<0, 0>>

\* The call this._clampToToMonitor(x, y, margin).
CallClamp ==
    /\ pc = "clamp"
    /\ clampRet' = ClampToMonitor(clampArgs.x, clampArgs.y, clampArgs.margin,
                                  clampArgs.settings, clampArgs.monitor)
    /\ pc' = "clamped"
    /\ UNCHANGED <<clampArgs, clampAgain>>
    /\ UNCHANGED <<menuVars, argItems, argParent, result>>

\* The call this._clampToToMonitor(clampedX, clampedY, margin) on the result.
CallClampAgain ==
    /\ pc = "clamped"
    /\ clampAgain' = ClampToMonitor(clampRet[1], clampRet[2], clampArgs.margin,
                                    clampArgs.settings, clampArgs.monitor)
    /\ pc' = "reclamped"
    /\ UNCHANGED <<clampArgs, clampRet>>
    /\ UNCHANGED <<menuVars, argItems, argParent, result>>

NextClamp ==
    \/ CallClamp
    \/ CallClampAgain

SpecClamp == InitClamp /\ [][NextClamp]_vars

-----------------------------------------------------------------------------
(***************************************************************************)
(* Properties of show().  A step is a call of show() when it satisfies     *)
(* Show for some arguments; every other operation clears ret.              *)
(***************************************************************************)
ShowStep(id, structure, preview) ==
    /\ ret' # NoReturn
    /\ Show(id, structure, preview)

\* What _updateItemAngles returns for the root list of a structure.
AnglesValid(structure) == UpdateItemAngles(structure.children, FALSE, 0).ret

\* The paths of the items of a tree, the root's included.
RECURSIVE Paths(_)
Paths(item) ==
    {<<>>} \cup UNION {{<<k - 1>> \o q : q \in Paths(item.children[k])} :
                          k \in 1..Len(item.children)}

\* C1 (as stated): a show() issued while a menu is active (a show() has
\* succeeded and no hide has happened since, so _menuID is not null) returns
\* eAlreadyActive and leaves the selection chain, the dragged child, the
\* menuID and the tree unchanged, for every menuID.
C1_SecondShowRefused ==
    [][\A id \in MenuIDs, structure \in MenuStructures, preview \in BOOLEAN :
          (menuID # NoMenuID /\ ShowStep(id, structure, preview))
              => /\ ret' = Failure(eAlreadyActive)
                 /\ UNCHANGED <<menuSelectionChain, draggedChild, menuID, root, heap>>]_vars

\* The Closing state: _hide() has cleared _menuID, and the handler of
\* transitions-completed has not yet removed the tree that _root refers to.
Closing ==
    /\ menuID = NoMenuID
    /\ root # NoTree

\* C2 (as stated): a show() issued in the Closing state returns eAlreadyActive.
C2_ClosingShowRefused ==
    [][\A id \in MenuIDs, structure \in MenuStructures, preview \in BOOLEAN :
          (Closing /\ ShowStep(id, structure, preview))
              => ret' = Failure(eAlreadyActive)]_vars

\* C2 (amended): a show() issued in the Closing state is never refused with
\* eAlreadyActive.  It is handled as in the Idle state: it returns
\* ePropertyMissing for an empty root list, eInvalidAngles when
\* _updateItemAngles returns false, and otherwise eUnknownError or the menuID,
\* which is then the active menu.
C2_ClosingShowAccepted ==
    [][\A id \in MenuIDs, structure \in MenuStructures, preview \in BOOLEAN :
          (Closing /\ ShowStep(id, structure, preview))
              => /\ ret'.error # eAlreadyActive
                 /\ IF Len(structure.children) = 0 THEN ret' = Failure(ePropertyMissing)
                    ELSE IF ~AnglesValid(structure) THEN ret' = Failure(eInvalidAngles)
                    ELSE ret' \in {Failure(eUnknownError), Success(id)}
                 /\ ret' = Success(id) => menuID' = id /\ Len(menuSelectionChain') = 1]_vars

\* A show() in the Closing state has returned eInvalidAngles, which leaves
\* _menuID and _root as they were: the menu is still closing.
C2_Witness ==
    /\ ret = Failure(eInvalidAngles)
    /\ Closing

\* C3 (as stated): a show() that returns an error code leaves the menuID, the
\* selection chain, the dragged child, the preview-mode flag and the tree
\* (_root, and whether it has been destroyed) as they were.
C3_FailedShowNoSideEffects ==
    [][\A id \in MenuIDs, structure \in MenuStructures, preview \in BOOLEAN :
          (ret'.error \in ErrorCodes /\ ShowStep(id, structure, preview))
              => UNCHANGED <<menuID, menuSelectionChain, draggedChild, previewMode, root, heap>>]_vars

\* A list whose fixed angles are not strictly increasing, reach 360 degrees, or
\* lie within 1 degree of the link to the parent.
ListInvalid(items, hasParent, parentAngle) ==
    \/ ~FixedAnglesValid(FixedAngles(items))
    \/ ParentCollides(FixedAngles(items), hasParent, parentAngle)

\* Some list of the tree is invalid, at any depth; the link to the parent of a
\* list is at (angle of the parent item + 180) mod 360.
RECURSIVE SomeListInvalid(_, _, _)
SomeListInvalid(items, hasParent, parentAngle) ==
    IF Len(items) = 0 THEN FALSE
    ELSE \/ ListInvalid(items, hasParent, parentAngle)
         \/ LET level == SolveList(items, hasParent, parentAngle).items
            IN  \E k \in 1..Len(items) :
                    SomeListInvalid(level[k].children, TRUE, (level[k].angle + Deg(180)) % Deg(360))

\* C4 (as stated): when some list of the structure, at any depth, is invalid,
\* a show() made when no menu is active, whose input grab does not fail,
\* returns eInvalidAngles.
C4_InvalidAnglesAtAnyDepth ==
    [][\A id \in MenuIDs, structure \in Structures, preview \in BOOLEAN :
          (menuID = NoMenuID /\ ret' # Failure(eUnknownError)
             /\ SomeListInvalid(structure.children, FALSE, 0)
             /\ ShowStep(id, structure, preview))
              => ret' = Failure(eInvalidAngles)]_vars

\* C5: a show() made when no menu is active, with a non-empty root list, valid
\* angles and a successful input grab returns the menuID and leaves the menu
\* active with the selection chain [root], the root CENTER_HOVERED, no dragged
\* child, and the wedges configured with the angles of the root's children and
\* no parent angle.
C5_SuccessfulShow ==
    [][\A id \in MenuIDs, structure \in MenuStructures, preview \in BOOLEAN :
          (menuID = NoMenuID /\ ret' # Failure(eUnknownError)
             /\ Len(structure.children) > 0 /\ ShowStep(id, structure, preview)
             /\ AnglesValid(structure))
              => LET solved == UpdateItemAngles(structure.children, FALSE, 0).items
                 IN  /\ ret' = Success(id)
                     /\ menuID' = id
                     /\ root' # NoTree
                     /\ heap'[root'].destroyed = 0
                     /\ menuSelectionChain' = <<[tree |-> root', path |-> <<>>]>>
                     /\ heap'[root'].item.state = CENTER_HOVERED
                     /\ draggedChild' = NullRef
                     /\ selectionWedges'.itemAngles =
                            [k \in 1..Len(solved) |-> [defined |-> TRUE, angle |-> solved[k].angle]]
                     /\ ~selectionWedges'.hasParent]_vars

\* A menu of two items has just been shown: the wedges are at 90 and 270 degrees.
C5_Witness ==
    /\ ret = Success(1)
    /\ menuID = 1
    /\ Len(menuSelectionChain) = 1
    /\ heap[root].item.state = CENTER_HOVERED
    /\ selectionWedges = SetItemAngles(<<[defined |-> TRUE, angle |-> Deg(90)],
                                         [defined |-> TRUE, angle |-> Deg(270)]>>, FALSE, NoAngle)

\* The ids the tree of a structure has to carry: an id the caller supplied is
\* kept; an item without one has the id of its parent, '/', and its index;
\* an item of the root list has '/' and its index.
IDsAsAssigned(tree, structure) ==
    \A q \in Paths(tree) \ {<<>>} :
        LET supplied == ItemAt(structure, q).id
            index == q[Len(q)]
            parent == ItemAt(tree, SubSeq(q, 1, Len(q) - 1))
        IN  ItemAt(tree, q).id =
                IF supplied # "" THEN supplied
                ELSE IF Len(q) = 1 THEN "/" \o ToString(index)
                ELSE parent.id \o "/" \o ToString(index)

IDsDistinct(tree) ==
    \A q1, q2 \in Paths(tree) : q1 # q2 => ItemAt(tree, q1).id # ItemAt(tree, q2).id

NoSuppliedIDs(structure) ==
    \A q \in Paths(structure) \ {<<>>} : ItemAt(structure, q).id = ""

\* C10 (as stated): after a successful show() every item of the tree has an
\* id, the ids of the tree are pairwise distinct, whether the caller supplied
\* some of them or not, and the id of the root is '/'.
C10_IDsDistinct ==
    (ret.error = "" /\ root # NoTree)
        => /\ \A q \in Paths(heap[root].item) : ItemAt(heap[root].item, q).id # ""
           /\ IDsDistinct(heap[root].item)
           /\ heap[root].item.id = "/"

\* C10 (amended): after a successful show() every item of the tree has an id
\* and the id of the root is '/'; an id the caller supplied is kept as it is
\* and every other item has the default index path; the ids are pairwise
\* distinct when the caller supplied none below the root.
C10_IDsAssigned ==
    [][\A id \in MenuIDs, structure \in Structures, preview \in BOOLEAN :
          (ret' = Success(id) /\ previewMode' = preview /\ ShowStep(id, structure, preview))
              => LET tree == heap'[root'].item
                 IN  /\ \A q \in Paths(tree) : ItemAt(tree, q).id # ""
                     /\ tree.id = "/"
                     /\ Paths(tree) = Paths(structure)
                     /\ IDsAsAssigned(tree, structure)
                     /\ NoSuppliedIDs(structure) => IDsDistinct(tree)]_vars

\* A tree of three levels has just been shown with the default ids, and
\* nothing in it repeats an id.
C10_Witness ==
    /\ ret.error = ""
    /\ root # NoTree
    /\ <<0, 0, 1>> \in Paths(heap[root].item)
    /\ ItemAt(heap[root].item, <<0, 0, 1>>).id = "/0/0/1"
    /\ IDsDistinct(heap[root].item)

-----------------------------------------------------------------------------
(***************************************************************************)
(* Properties of _updateItemAngles, read off the states after the call.    *)
(***************************************************************************)
\* The supplied angles of a list, in list order.
Supplied(items) ==
    LET sel == SelectSeq(items, LAMBDA item : item.hasAngle)
    IN  [k \in 1..Len(sel) |-> sel[k].angle]

\* The supplied angles that the solver takes as fixed: those that are not negative.
NonNegative(angles) == SelectSeq(angles, LAMBDA a : a >= 0)

StrictlyIncreasing(angles) ==
    \A i, j \in 1..Len(angles) : i < j => angles[i] < angles[j]

InRange(a) == a >= 0 /\ a < Deg(360)

\* Some angle of the sequence is less than 1 degree from the parent angle.
NearParent(angles, parent) ==
    parent.defined /\ \E i \in 1..Len(angles) : Abs(angles[i] - parent.angle) < Deg(1)

\* Every item of a solved list has an angle between 0 and 360 degrees.
AllInRange(items) ==
    \A k \in 1..Len(items) : items[k].hasAngle /\ InRange(items[k].angle)

\* C6: when no item of the list has a fixed angle, the call succeeds and item 0
\* gets 90 degrees if there is no parent link or its angle is at least 180,
\* and 270 degrees if its angle is below 180; without a parent link item k of
\* n gets (90 + k * 360 / n) mod 360.
C6_NoFixedAngleDefaults ==
    (pc = "done" /\ Supplied(argItems) = <<>>)
        => /\ result.ret
           /\ result.items[1].hasAngle
           /\ result.items[1].angle =
                  IF argParent.defined /\ argParent.angle < Deg(180) THEN Deg(270) ELSE Deg(90)
           /\ ~argParent.defined =>
                  \A k \in 0..(Len(argItems) - 1) :
                      /\ result.items[k + 1].hasAngle
                      /\ result.items[k + 1].angle =
                             (Deg(90) + (k * Deg(360)) \div Len(argItems)) % Deg(360)

\* Three items below a parent link at 10.5 degrees: the first is at 270 degrees.
C6_Witness ==
    /\ pc = "done"
    /\ Len(argItems) = 3
    /\ Supplied(argItems) = <<>>
    /\ argParent = [defined |-> TRUE, angle |-> HalfDeg(21)]
    /\ result.items[1].angle = Deg(270)

\* C7: for a list of n >= 1 items whose supplied angles are strictly increasing
\* and in [0,360), and a parent angle, if any, at least 1 degree from each of
\* them, the call returns true and every item has an angle in [0,360), the n
\* angles being pairwise distinct.
C7_SolverTotal ==
    (/\ pc = "done"
     /\ \A i \in 1..Len(Supplied(argItems)) : InRange(Supplied(argItems)[i])
     /\ StrictlyIncreasing(Supplied(argItems))
     /\ ~NearParent(Supplied(argItems), argParent))
        => /\ result.ret
           /\ Len(result.items) = Len(argItems)
           /\ AllInRange(result.items)
           /\ \A i, j \in 1..Len(result.items) :
                  i # j => result.items[i].angle # result.items[j].angle

\* Fixed angles of 10 and 200 degrees around a free item, the parent link at
\* 29 degrees inside their wedge: the free item lies between the two.
C7_Witness ==
    /\ pc = "done"
    /\ Len(argItems) = 3
    /\ Supplied(argItems) = <<Deg(10), Deg(200)>>
    /\ ~argItems[2].hasAngle
    /\ argParent = [defined |-> TRUE, angle |-> HalfDeg(58)]
    /\ result.ret
    /\ result.items[2].angle > Deg(29)
    /\ result.items[2].angle < Deg(200)

\* C8: the call returns false when the fixed angles of the list (the supplied
\* angles that are not negative) are not strictly increasing in list order,
\* and when one of them is less than 1 degree from the parentAngle.
C8_RejectsUnorderedOrColliding ==
    (/\ pc = "done"
     /\ \/ ~StrictlyIncreasing(NonNegative(Supplied(argItems)))
        \/ NearParent(NonNegative(Supplied(argItems)), argParent))
        => ~result.ret

\* The list [30, 10] without a parent link has been refused.
C8_Witness ==
    /\ pc = "done"
    /\ Supplied(argItems) = <<Deg(30), Deg(10)>>
    /\ ~argParent.defined
    /\ ~result.ret

-----------------------------------------------------------------------------
(***************************************************************************)
(* The selection chain during navigation.                                  *)
(***************************************************************************)
\* The states of a MenuItem that is the center of the menu.
CenterStates == {CENTER, CENTER_HOVERED}

\* The reference to the root of the tree this._root.
RootRef == [tree |-> root, path |-> <<>>]

\* The first element of the chain is a center and the last is the root.
ChainAnchored ==
    /\ Len(menuSelectionChain) > 0
    /\ Deref(heap, menuSelectionChain[1]).state \in CenterStates
    /\ menuSelectionChain[Len(menuSelectionChain)] = RootRef

\* The wedges are configured for the first element of the chain: with the
\* angles of its children, and with a parent wedge when the chain has a parent.
WedgesOfCenter ==
    /\ Len(menuSelectionChain) > 0
    /\ selectionWedges.itemAngles = ItemAngles(Deref(heap, menuSelectionChain[1]))
    /\ selectionWedges.hasParent = (Len(menuSelectionChain) > 1)

\* C11: while a menu is active, the first element of the selection chain is
\* CENTER or CENTER_HOVERED and the last element is the root of the tree.
C11_ChainAnchored == menuID # NoMenuID => ChainAnchored

\* What holds instead: a show() that opens a menu when none is active leaves
\* the chain anchored and the wedges configured for its first element, and
\* every event handler that leaves the menu active keeps both so.
ChainAnchoredByNavigation ==
    [][/\ (menuID = NoMenuID /\ ret'.error = "")
            => (ChainAnchored' /\ WedgesOfCenter')
       /\ (menuID # NoMenuID /\ ChainAnchored /\ WedgesOfCenter
              /\ ret' = NoReturn /\ menuID' # NoMenuID)
            => (ChainAnchored' /\ WedgesOfCenter')]_vars

\* The number of MenuItems of a tree that are CENTER or CENTER_HOVERED.
RECURSIVE SumCenters(_, _)
RECURSIVE CountCenters(_)
SumCenters(items, k) ==
    IF k > Len(items) THEN 0 ELSE CountCenters(items[k]) + SumCenters(items, k + 1)

CountCenters(item) ==
    (IF item.state \in CenterStates THEN 1 ELSE 0) + SumCenters(item.children, 1)

-----------------------------------------------------------------------------
(***************************************************************************)
(* Selections.                                                             *)
(***************************************************************************)
\* The index-th child of the first element of the chain exists and is a leaf.
LeafChild(index) ==
    /\ Len(menuSelectionChain) > 0
    /\ HasChild(heap, menuSelectionChain[1], index)
    /\ Len(ChildItems(heap, ChildRef(menuSelectionChain[1], index))) = 0

\* C13: a child-selected event for a child without children that arrives while
\* the primary button is held changes nothing: the chain, the states of all
\* items, the dragged child, the menuID, the tree, the wedges and the
\* background are unchanged, the root is not translated and neither onSelect
\* nor onCancel is called.
C13_GestureOnLeafIgnored ==
    [][\A index \in WedgeIndices :
          (ret' = NoReturn /\ LeafChild(index) /\ ChildSelected(index, TRUE))
              => /\ UNCHANGED <<menuID, previewMode, draggedChild, menuSelectionChain, root, heap, selectionWedges, background>>
                 /\ calls' = <<>>]_vars

\* The button is held over a leaf, which is being dragged, and the last event
\* called nothing.
C13_Witness ==
    /\ menuID # NoMenuID
    /\ \E index \in WedgeIndices :
          /\ LeafChild(index)
          /\ draggedChild = ChildRef(menuSelectionChain[1], index)
          /\ Deref(heap, draggedChild).state = CHILD_DRAGGED
    /\ ret = NoReturn
    /\ calls = <<>>

\* The calls of onSelect among the calls of the last operation.
IsOnSelect(call) == call.name = "onSelect"
SelectCalls(cs) == SelectSeq(cs, IsOnSelect)

\* C14: a child-selected event for a leaf with the primary button not held
\* calls onSelect exactly once, with the menuID that was active before the
\* event and the id of the leaf, and hides the menu: the menuID is null and the
\* chain is empty.  A child-selected event for a child with children calls
\* onSelect not at all and does not hide: the menuID stays and the chain grows.
C14_LeafSelectionReported ==
    [][\A index \in WedgeIndices, button \in BOOLEAN :
          (ret' = NoReturn /\ menuID # NoMenuID /\ Len(menuSelectionChain) > 0
             /\ HasChild(heap, menuSelectionChain[1], index)
             /\ ChildSelected(index, button))
              => LET child == ChildRef(menuSelectionChain[1], index)
                 IN  IF LeafChild(index)
                     THEN ~button =>
                            /\ SelectCalls(calls') =
                                  <<[name |-> "onSelect", menuID |-> menuID, id |-> Deref(heap, child).id]>>
                            /\ menuID' = NoMenuID
                            /\ menuSelectionChain' = <<>>
                            /\ draggedChild' = NullRef
                     ELSE /\ SelectCalls(calls') = <<>>
                          /\ menuID' = menuID
                          /\ Len(menuSelectionChain') = Len(menuSelectionChain) + 1
                          /\ background' = background]_vars

\* The second item of menu 1 was selected: onSelect(1, "/1") was called and the
\* menu is closing.
C14_Witness ==
    /\ SelectCalls(calls) = <<[name |-> "onSelect", menuID |-> 1, id |-> "/1"]>>
    /\ menuID = NoMenuID
    /\ menuSelectionChain = <<>>
    /\ root # NoTree

-----------------------------------------------------------------------------
(***************************************************************************)
(* Cancelling and hiding.                                                  *)
(***************************************************************************)
\* No menu is shown and no tree is left.
Idle == menuID = NoMenuID /\ root = NoTree

\* C15: a cancel-selection event on an active menu calls onCancel once, with
\* the menuID that was active, and nothing else; afterwards the menuID is null
\* and the tree is still present (Closing).  When the fade-out then completes,
\* the tree is destroyed, _root is null and the menu is Idle.
C15_CancelThenIdle ==
    [][/\ (ret' = NoReturn /\ menuID # NoMenuID /\ CancelSelection)
            => /\ calls' = <<[name |-> "onCancel", menuID |-> menuID, id |-> ""]>>
               /\ root # NoTree
               /\ root' = root
               /\ heap'[root] = heap[root]
               /\ Closing'
       /\ (ret' = NoReturn /\ Closing /\ background.fading = "out" /\ TransitionsCompleted)
            => /\ Idle'
               /\ ~heap'[root].used]_vars

\* Menu 1 was cancelled: onCancel(1) was called, the menu is closing and the
\* tree has not been destroyed.
C15_Witness ==
    /\ calls = <<[name |-> "onCancel", menuID |-> 1, id |-> ""]>>
    /\ Closing
    /\ heap[root].destroyed = 0
    /\ background.fading = "out"

-----------------------------------------------------------------------------
(***************************************************************************)
(* _clampToToMonitor.                                                      *)
(***************************************************************************)
\* The bounds of the call: min, maxX and maxY.
ArgMin == ClampMin(clampArgs.margin, clampArgs.settings)
ArgMaxX == ClampMax(clampArgs.monitor.width, clampArgs.margin, clampArgs.settings)
ArgMaxY == ClampMax(clampArgs.monitor.height, clampArgs.margin, clampArgs.settings)

\* C17: _clampToToMonitor called on the point it returned, with the same
\* margin, settings and monitor, returns that point.
C17_ClampIdempotent == pc = "reclamped" => clampAgain = clampRet

\* The first call moved the point in both axes, to a bound that is not a whole
\* number of pixels, and the second call has been made.
C17_Witness ==
    /\ pc = "reclamped"
    /\ clampRet[1] # clampArgs.x
    /\ clampRet[2] # clampArgs.y
    /\ Floor(ArgMin) # ArgMin
    /\ ArgMin <= ArgMaxY

\* A returned coordinate lies in the closed interval [min, max] of its axis.
InInterval(v, min, max) == min <= v /\ v <= max

FlooredInInterval(v, min, max) ==
    /\ Floor(v) = v
    /\ IF min <= max
       THEN Floor(min) <= v /\ v <= max
       ELSE v = Floor(max)

-----------------------------------------------------------------------------
(***************************************************************************)
(* Hovering, and the steps that change the selection chain.                *)
(***************************************************************************)
\* C19: after a child-hovered event, for no child (index -1) or for a child
\* of the first element of the chain, the first element is CENTER_HOVERED if
\* index is -1 and CENTER otherwise; the second element, if there is one, is
\* PARENT; the dragged child is the hovered child, which is CHILD_DRAGGED,
\* when the primary button is held and index >= 0, and null otherwise; and
\* the chain is unchanged.
C19_ChildHovered ==
    [][\A index \in {-1} \cup WedgeIndices, button \in BOOLEAN :
          (ret' = NoReturn /\ Len(menuSelectionChain) > 0
             /\ (index = -1 \/ HasChild(heap, menuSelectionChain[1], index))
             /\ ChildHovered(index, button))
              => /\ menuSelectionChain' = menuSelectionChain
                 /\ Deref(heap', menuSelectionChain[1]).state =
                        (IF index = -1 THEN CENTER_HOVERED ELSE CENTER)
                 /\ Len(menuSelectionChain) > 1
                        => Deref(heap', menuSelectionChain[2]).state = PARENT
                 /\ IF button /\ index >= 0
                    THEN /\ draggedChild' = ChildRef(menuSelectionChain[1], index)
                         /\ Deref(heap', draggedChild').state = CHILD_DRAGGED
                    ELSE draggedChild' = NullRef]_vars

\* One level down, the button is held over a child: the center is CENTER, its
\* parent PARENT and the child is dragged.
C19_Witness ==
    /\ menuID # NoMenuID
    /\ Len(menuSelectionChain) = 2
    /\ Deref(heap, menuSelectionChain[1]).state = CENTER
    /\ Deref(heap, menuSelectionChain[2]).state = PARENT
    /\ draggedChild = ChildRef(menuSelectionChain[1], 0)
    /\ Deref(heap, draggedChild).state = CHILD_DRAGGED

\* The state of the MenuItem a reference refers to, after the step.
StateAfter(ref) == Deref(heap', ref).state

\* C20: the selection chain changes only in these ways: show(), when it
\* succeeds, sets it to [root]; a child-selected event prepends the index-th
\* child of the first element, which becomes PARENT while the child becomes
\* CENTER_HOVERED and no child is dragged; a parent-selected event removes the
\* first element, and the new first element is CENTER_HOVERED and no child is
\* dragged; a hide empties it.  A hover event, a motion event and an ignored
\* selection leave it unchanged.
C20_ChainSteps ==
    [][/\ ret'.error = "" => menuSelectionChain' = <<RootRef'>>
       /\ (ret'.error # "" /\ menuSelectionChain' # menuSelectionChain)
            => \/ /\ menuID # NoMenuID
                  /\ menuID' = NoMenuID
                  /\ menuSelectionChain' = <<>>
               \/ /\ ret' = NoReturn
                  /\ Len(menuSelectionChain) > 0
                  /\ \E index \in WedgeIndices :
                        /\ HasChild(heap, menuSelectionChain[1], index)
                        /\ menuSelectionChain' =
                               <<ChildRef(menuSelectionChain[1], index)>> \o menuSelectionChain
                  /\ StateAfter(menuSelectionChain[1]) = PARENT
                  /\ StateAfter(menuSelectionChain'[1]) = CENTER_HOVERED
                  /\ draggedChild' = NullRef
               \/ /\ ret' = NoReturn
                  /\ Len(menuSelectionChain) > 1
                  /\ menuSelectionChain' = Tail(menuSelectionChain)
                  /\ StateAfter(menuSelectionChain'[1]) = CENTER_HOVERED
                  /\ draggedChild' = NullRef
       /\ \A index \in {-1} \cup WedgeIndices, button \in BOOLEAN :
             (ret' = NoReturn /\ calls' = <<>>
                /\ \/ ChildHovered(index, button)
                   \/ MotionEvent(index, button)
                   \/ ParentHovered
                   \/ (button /\ LeafChild(index) /\ ChildSelected(index, button)))
                 => menuSelectionChain' = menuSelectionChain]_vars

-----------------------------------------------------------------------------
(***************************************************************************)
(* The configuration of the wedges.                                        *)
(***************************************************************************)
\* C21: whenever a menu is active, the wedges are configured with the angles
\* of the children of the first element of the chain, in order, and with a
\* parent angle exactly when the chain has more than one element; the parent
\* angle is then (angle of the first element + 180) mod 360.
C21_WedgesMatchCenter ==
    menuID # NoMenuID
        => /\ WedgesOfCenter
           /\ selectionWedges.hasParent
                  => selectionWedges.parentAngle =
                         ParentLinkAngle(Deref(heap, menuSelectionChain[1]))

-----------------------------------------------------------------------------
(***************************************************************************)
(* The space the solver keeps free for the link to the parent.             *)
(***************************************************************************)
\* The distance between two angles on the circle.
CircDist(a, b) == Min((a - b) % Deg(360), (b - a) % Deg(360))

\* The indices of the items that came with a fixed angle, in list order.
FixedIndices(items) ==
    SelectSeq(Indices(Len(items)),
              LAMBDA i : items[i + 1].hasAngle /\ items[i + 1].angle >= 0)

\* The items that bound the wedges of a solved list: the items that came with
\* a fixed angle, or the first item when none did.
Boundaries(before, after) ==
    LET idx == IF FixedIndices(before) = <<>> THEN <<0>> ELSE FixedIndices(before)
    IN  [k \in 1..Len(idx) |-> [angle |-> after[idx[k] + 1].angle, index |-> idx[k]]]

\* The i-th wedge of a solved list below a parent link at angle p: its begin
\* and end angles, the indices of the items inside it, and whether the parent
\* link lies inside it.
Wedge(bounds, i, n, p) ==
    LET next  == bounds[(i % Len(bounds)) + 1]
        begin == bounds[i].angle
        end   == IF next.angle <= begin THEN next.angle + Deg(360) ELSE next.angle
        count == (next.index - bounds[i].index - 1 + n) % n
    IN  [begin   |-> begin,
         end     |-> end,
         members |-> {(bounds[i].index + d) % n : d \in 1..count},
         parent  |-> (begin < p /\ p < end) \/ (begin < p + Deg(360) /\ p + Deg(360) < end)]

\* The slots of a wedge: one per item inside it, and one more for the parent link.
SlotCount(w) == Cardinality(w.members) + (IF w.parent THEN 1 ELSE 0)

\* The angle between two neighbouring slots of a wedge.
SlotGap(w) == (w.end - w.begin) \div (SlotCount(w) + 1)

\* A solved list keeps the link to its parent at angle p free.
ParentSlotKept(before, after, p) ==
    LET bounds == Boundaries(before, after)
        n      == Len(before)
        wedges == [i \in 1..Len(bounds) |-> Wedge(bounds, i, n, p)]
    IN  /\ \A i \in 1..Len(bounds) : \A j \in wedges[i].members :
               /\ 2 * CircDist(after[j + 1].angle, p) >= SlotGap(wedges[i])
               /\ \E k \in 1..SlotCount(wedges[i]) :
                      after[j + 1].angle = (wedges[i].begin + k * SlotGap(wedges[i])) % Deg(360)
        /\ FixedIndices(before) = <<>>
               => 2 * CircDist(after[1].angle, p) >= SlotGap(wedges[1])
        /\ \A k \in 1..n : after[k].angle # p
        /\ \A i, j \in 1..n : i # j => after[i].angle # after[j].angle
        /\ Cardinality({i \in 1..Len(bounds) : wedges[i].parent}) <= 1

\* The link from the children of an item to the item.
LinkToParent(item) == (item.angle + Deg(180)) % Deg(360)

\* C22: when a list is solved with a parent link at angle p, every item that
\* had no fixed angle gets an angle whose distance to p on the circle is at
\* least half the slot gap of its wedge, no solved angle equals p, and the
\* items of a wedge sit on distinct slots of which at most one, in one wedge
\* of the list, is left free for the parent link.  The same holds for the
\* children of the first item, whose parent link is opposite to the item.
C22_ParentSlotKept ==
    (pc = "done" /\ result.ret)
        => /\ argParent.defined
                  => ParentSlotKept(argItems, result.items, argParent.angle)
           /\ (/\ Len(argItems[1].children) > 0
               /\ ~ListInvalid(argItems[1].children, TRUE, LinkToParent(result.items[1])))
                  => ParentSlotKept(argItems[1].children, result.items[1].children,
                                    LinkToParent(result.items[1]))

\* A fixed item at 0 degrees and two free items below a parent link at 180
\* degrees: the slot at 180 degrees is left free, the items are at 90 and 270.
C22_Witness ==
    /\ pc = "done"
    /\ result.ret
    /\ Len(argItems) = 3
    /\ Supplied(argItems) = <<Deg(0)>>
    /\ argItems[1].hasAngle
    /\ argParent = [defined |-> TRUE, angle |-> Deg(180)]
    /\ result.items[2].angle = Deg(90)
    /\ result.items[3].angle = Deg(270)

-----------------------------------------------------------------------------
(***************************************************************************)
(* The placement of the new center at the pointer.                         *)
(***************************************************************************)
\* The MenuItems of the trees that exist before and after a step.
ItemsKept ==
    UNION {{[tree |-> t, path |-> q] : q \in Paths(heap[t].item)} :
              t \in {u \in DOMAIN heap : heap[u].used /\ heap'[u].used}}

\* A step translates no MenuItem but those of a set.
TranslatesOnly(refs) ==
    \A ref \in ItemsKept \ refs :
        Deref(heap', ref).translation = Deref(heap, ref).translation

\* A child-selected event that is not ignored places the child at the clamped
\* pointer: the root of the chain moves by the clamped position relative to the
\* old center minus the idealized offset of the child, and the child is placed
\* at that offset.
ChildPlacedAtPointer ==
    \A index \in WedgeIndices, button \in BOOLEAN :
        (/\ ret' = NoReturn
         /\ Len(menuSelectionChain) > 0
         /\ HasChild(heap, menuSelectionChain[1], index)
         /\ ~(button /\ LeafChild(index))
         /\ ChildSelected(index, button)
         /\ heap'[menuSelectionChain[1].tree].used)
            => LET child     == ChildRef(menuSelectionChain[1], index)
                   chainRoot == menuSelectionChain[Len(menuSelectionChain)]
                   relative  == Minus(ClampedPointer, StagePosition(heap, menuSelectionChain[1]))
                   ideal     == Deref(heap', child).translation
               IN  /\ StagePosition(heap', child) = ClampedPointer
                   /\ heap'[chainRoot.tree].used
                          => Deref(heap', chainRoot).translation =
                                 Plus(Deref(heap, chainRoot).translation, Minus(relative, ideal))
                   /\ TranslatesOnly({chainRoot, child})

\* A parent-selected event places the new center at the clamped pointer: the
\* root of the chain moves by the clamped position relative to the new center.
ParentPlacedAtPointer ==
    (ret' = NoReturn /\ Len(menuSelectionChain) > 1 /\ ParentSelected)
        => LET center    == menuSelectionChain[2]
               chainRoot == menuSelectionChain[Len(menuSelectionChain)]
               relative  == Minus(ClampedPointer, StagePosition(heap, center))
           IN  /\ StagePosition(heap', center) = ClampedPointer
               /\ Deref(heap', chainRoot).translation =
                      Plus(Deref(heap, chainRoot).translation, relative)
               /\ TranslatesOnly({chainRoot})

\* C23: after a child-selected event that is not suppressed and after a
\* parent-selected event the new first element of the chain is exactly at the
\* clamped position of the pointer on the stage: for child-selected the root of
\* the chain is translated by the clamped position relative to the old center
\* minus the idealized offset of the child, and the child is placed at that
\* offset; for parent-selected the root of the chain is translated by the
\* clamped position relative to the new center; no other item is translated.
C23_CenterAtPointer == [][ChildPlacedAtPointer /\ ParentPlacedAtPointer]_vars


\* A step gives some MenuItem another translation.
SomeItemMoved ==
    \E ref \in ItemsKept : Deref(heap', ref).translation # Deref(heap, ref).translation

\* C24: a motion event moves a menu item only if the primary button is held at
\* that event and a drag target is set; a motion event with the button
\* released changes the position of no item, also when a drag target of an
\* earlier event is still set.
C24_DragOnlyWhileHeld ==
    [][\A index \in {-1} \cup WedgeIndices, button \in BOOLEAN :
          (ret' = NoReturn /\ calls' = <<>> /\ MotionEvent(index, button) /\ SomeItemMoved)
              => button /\ draggedChild' # NullRef]_vars

-----------------------------------------------------------------------------
(***************************************************************************)
(* The end of a tree.                                                      *)
(***************************************************************************)
\* C25: over every interleaving of calls of show() that succeed or fail, of
\* hides and of ends of the fade, destroy() is called at most once on a tree,
\* and this._root does not refer to a tree that has been destroyed.
C25_DestroyedOnce ==
    /\ \A t \in DOMAIN heap : heap[t].destroyed <= 1
    /\ root # NoTree => heap[root].destroyed = 0

-----------------------------------------------------------------------------
(***************************************************************************)
(* The calls of onSelect and onCancel.                                     *)
(***************************************************************************)
Notifications(cs) == SelectSeq(cs, LAMBDA call : call.name \in {"onSelect", "onCancel"})

\* C26: every call of onSelect or onCancel carries a menuID that is not null
\* and is the id of the menu that is active when the event arrives; an
\* operation makes at most one such call and leaves no menu active after it,
\* so that at most one is made between one show() that succeeds and the next;
\* a cancel-selection or close event that arrives when the menu is hidden
\* makes none.
C26_NotificationsOfActiveMenu ==
    [][Notifications(calls') # <<>>
          => /\ Len(Notifications(calls')) = 1
             /\ menuID # NoMenuID
             /\ Notifications(calls')[1].menuID = menuID
             /\ menuID' = NoMenuID]_vars
=============================================================================
